---- MODULE Spec2Model ----
(***************************************************************************)
(* Session-state layer of the Malaria AI Detective Streamlit application   *)
(* (src/app.py).  One browser session is modelled: the st.session_state    *)
(* dictionary, the widget values held by the front end, the position of    *)
(* the script run that is executing app.py top to bottom, and the          *)
(* classifier, which is an opaque predictor whose outcome is chosen        *)
(* nondeterministically.                                                   *)
(*                                                                         *)
(* Streamlit executes the script once per front-end event.  A run that is  *)
(* inside the progress loop of the analyse handler can be interrupted by a *)
(* new event: the runtime raises a rerun exception inside the next st.*    *)
(* call, the script stops there and a new run starts with the new widget   *)
(* values.  The classifier call and the session_state assignments that     *)
(* follow it contain no st.* call and so are one step.                     *)
(*                                                                         *)
(* Optional Python values are sequences of length 0 (None) or 1.  Scores   *)
(* are hundredths: 50 stands for 0.5 and 100 for 1.0.                      *)
(***************************************************************************)
EXTENDS Integers, Sequences, FiniteSets, TLC

\* ------------------------------------------------------------ bounds
\* datetime.now() returns a value between the last one read and MaxTime.
MaxTime == 1
\* The user clicks "Analyser avec l'IA" only while fewer than MaxCalls
\* classifier invocations have been made or are in flight.
MaxCalls == 2

\* ------------------------------------------------------------ values
None == <<>>
Some(x) == <<x>>

\* for i in range(100): the cosmetic progress loop
ProgressSteps == 100

\* sidebar radio options
DETECTION == "Detection par Image"
FORECAST == "Prevision Climatique"
DASHBOARD == "Dashboard Analytics"
Features == {DETECTION, FORECAST, DASHBOARD}

\* Files the user can put into the uploader.  ok says whether Image.open
\* and convert("RGB") succeed; size is (width, height); pixels are the raw
\* RGB bytes of the decoded image, three per pixel, row by row.
Files ==
  { [name |-> "a.png",  ok |-> TRUE,  size |-> <<2, 1>>, pixels |-> <<0, 1, 0, 1, 1, 0>>],
    [name |-> "a2.jpg", ok |-> TRUE,  size |-> <<1, 2>>, pixels |-> <<0, 1, 0, 1, 1, 0>>],
    [name |-> "b.png",  ok |-> TRUE,  size |-> <<1, 1>>, pixels |-> <<1, 1, 0>>],
    [name |-> "x.png",  ok |-> FALSE, size |-> <<0, 0>>, pixels |-> <<>>] }

\* What model.predict can do: return a score in [0,1] (hundredths) or raise
\* an exception whose str() is msg.
Scores == {0, 49, 50, 100}
Outcomes ==
  { [ok |-> TRUE, score |-> s, msg |-> ""] : s \in Scores } \cup
  { [ok |-> FALSE, score |-> 0, msg |-> m] : m \in {"", "predict failed"} }

Max(a, b) == IF a >= b THEN a ELSE b

\* ------------------------------------------------------------ state
VARIABLES
  session_state,      \* st.session_state: a function from the keys present to their values
  models,             \* the cached result of load_ai_models()
  uploaded_file,      \* value of the file_uploader widget in the browser: None or Some(file)
  selected_feature,   \* value of the sidebar radio
  clicked,            \* button pressed by the pending event, "none" if none
  rerun_requested,    \* a script run has been requested and has not started yet
  pc,                 \* position of the script run: "idle" or "progress"
  i,                  \* completed iterations of the progress loop
  image,              \* run-local `image`: None or Some([size, pixels])
  current_image_hash, \* run-local `current_image_hash`: None or Some(digest)
  screen,             \* what the last run rendered: [view, notice]
  now,                \* the last value datetime.now() returned
  calls,              \* history: classifier invocations per fingerprint
  last_call,          \* history: None or Some([image, outcome]) of the last invocation
  analysed,           \* history: fingerprints of the analyses that committed a score
  last_handler,       \* history: the button handler the last run executed
  was_reset,          \* history: "Nouvelle Analyse" has run in this session
  inputs,             \* values of the nine widgets of the forecast form in the browser
  request,            \* run-local widget values of the run inside "Generer la Prevision"
  report,             \* what the latest run rendered in the forecast results section: None or Some(record)
  numpy_promotion,    \* result type of numpy.float32 * float in this installation
  forecast_call       \* history: None or Some(record) of the regressor invocation of the last run

vars == << session_state, models, uploaded_file, selected_feature, clicked,
           rerun_requested, pc, i, image, current_image_hash, screen, now,
           calls, last_call, analysed, last_handler, was_reset,
           inputs, request, report, numpy_promotion, forecast_call >>

\* ------------------------------------------------------------ helpers of app.py
default_values ==
  [ analysis_done |-> FALSE,
    prediction_result |-> None,
    confidence_score |-> None,
    analyzed_image_hash |-> None,
    analysis_timestamp |-> None,
    current_tab |-> "detection",
    forecast_done |-> FALSE,
    forecast_result |-> None,
    models_loaded |-> FALSE ]

\* the initialisation assigning every default, present or not
initialize_overwrites(ss) ==
  [ k \in (DOMAIN ss) \cup (DOMAIN default_values) |->
      IF k \in DOMAIN default_values THEN default_values[k] ELSE ss[k] ]

\* for key, value in default_values.items(): if key not in st.session_state: ...
initialize_session_state(ss) ==
  [ k \in (DOMAIN ss) \cup (DOMAIN default_values) |->
      IF k \in DOMAIN ss THEN ss[k] ELSE default_values[k] ]

\* hashlib.md5(...).hexdigest(), idealised as a collision-free digest: the
\* byte sequence read as a numeral (bytes are 0 or 1 here).
RECURSIVE md5(_)
md5(bytes) ==
  IF bytes = <<>> THEN 1
  ELSE 3 * md5(SubSeq(bytes, 1, Len(bytes) - 1)) + bytes[Len(bytes)] + 1

\* the fingerprint input with the dimensions put before the pixel bytes
tobytes_with_size(img) == img.size \o img.pixels

\* image.tobytes(): the raw pixel bytes, without the dimensions
tobytes(img) == img.pixels

get_image_hash(img) == md5(tobytes(img))

\* Image.open(uploaded_file).convert("RGB"): None stands for the exception
ImageOpen(file) ==
  IF file.ok THEN Some([size |-> file.size, pixels |-> file.pixels]) ELSE None

\* reset_analysis_state that forgets analysis_timestamp
reset_keeps_timestamp(ss) ==
  [ ss EXCEPT !["analysis_done"] = FALSE,
              !["prediction_result"] = None,
              !["confidence_score"] = None,
              !["analyzed_image_hash"] = None ]

\* reset_analysis_state that forgets analyzed_image_hash
reset_keeps_hash(ss) ==
  [ ss EXCEPT !["analysis_done"] = FALSE,
              !["prediction_result"] = None,
              !["confidence_score"] = None,
              !["analysis_timestamp"] = None ]

\* reset_analysis_state that clears the forecast keys as well
reset_whole_session(ss) ==
  [ ss EXCEPT !["analysis_done"] = FALSE,
              !["prediction_result"] = None,
              !["confidence_score"] = None,
              !["analyzed_image_hash"] = None,
              !["analysis_timestamp"] = None,
              !["forecast_done"] = FALSE,
              !["forecast_result"] = None ]

\* reset_analysis_state that leaves analysis_done as it is
reset_keeps_done(ss) ==
  [ ss EXCEPT !["prediction_result"] = None,
              !["confidence_score"] = None,
              !["analyzed_image_hash"] = None,
              !["analysis_timestamp"] = None ]

reset_analysis_state(ss) ==
  [ ss EXCEPT !["analysis_done"] = FALSE,
              !["prediction_result"] = None,
              !["confidence_score"] = None,
              !["analyzed_image_hash"] = None,
              !["analysis_timestamp"] = None ]

\* process_image_prediction(image, model): (prediction, confidence, error).
\* `model` is None when the detection model was not loaded, and then
\* model.predict raises inside the try.
process_image_prediction(img, model, outcome) ==
  IF model = None
    THEN [prediction |-> None, confidence |-> None,
          error |-> Some("NoneType has no attribute predict")]
  ELSE IF outcome.ok
    THEN [prediction |-> Some(outcome.score),
          confidence |-> Some(Max(outcome.score, 100 - outcome.score)),
          error |-> None]
  ELSE [prediction |-> None, confidence |-> None, error |-> Some(outcome.msg)]

\* Python truth value of `error` (None or a str)
Truthy(error) == error # None /\ error[1] # ""


\* ------------------------------------------------------------ load_ai_models
\* The two loads succeed or fail independently; the result is cached for the
\* life of the process (st.cache_resource).
load_ai_models(detection_ok, forecast_ok) ==
  [ detection_model |-> IF detection_ok THEN Some("malaria_detector_mobilenet.h5") ELSE None,
    forecast_model |-> IF forecast_ok THEN Some("xgb_malaria_forecast_model.joblib") ELSE None,
    detection_loaded |-> detection_ok,
    forecast_loaded |-> forecast_ok ]

\* ------------------------------------------------------------ detection module
\* the availability gate left out
detection_gate_missing(m) == TRUE

\* if not models['detection_loaded']: st.error(...); st.stop()
detection_available(m) == m.detection_loaded

\* the new-image check resetting on every rerun
is_new_image_always(ss, h) == TRUE

\* the new-image check without the fingerprint comparison
is_new_image_ignores_hash(ss, h) == ~ss["analysis_done"]

\* not analysis_done or analyzed_image_hash != current_image_hash
is_new_image(ss, h) ==
  (~ss["analysis_done"]) \/ ss["analyzed_image_hash"] # Some(h)

\* the analyse interface offered whatever analysis_done is
awaiting_analysis_always(ss) == TRUE

\* if not st.session_state.analysis_done: (analyse interface) else: (results)
awaiting_analysis(ss) == ~ss["analysis_done"]

\* the results branch with the tie given to the negative class
results_view_strict(ss) ==
  IF ss["prediction_result"] = None THEN "display_error"
  ELSE IF ss["prediction_result"][1] > 50 THEN "positive"
  ELSE "negative"

\* The results branch.  prediction >= 0.5 raises TypeError when the stored
\* prediction is None; the outer except reports it.
results_view(ss) ==
  IF ss["prediction_result"] = None THEN "display_error"
  ELSE IF ss["prediction_result"][1] >= 50 THEN "positive"
  ELSE "negative"

\* the commit without the analysis_done assignment
save_results_without_done(ss, r, h, t) ==
  [ ss EXCEPT !["prediction_result"] = r.prediction,
              !["confidence_score"] = r.confidence,
              !["analyzed_image_hash"] = h,
              !["analysis_timestamp"] = Some(t) ]

\* the commit without the analyzed_image_hash assignment
save_results_without_hash(ss, r, h, t) ==
  [ ss EXCEPT !["prediction_result"] = r.prediction,
              !["confidence_score"] = r.confidence,
              !["analysis_done"] = TRUE,
              !["analysis_timestamp"] = Some(t) ]

\* st.session_state.prediction_result = prediction ... analysis_timestamp = datetime.now()
save_results(ss, r, h, t) ==
  [ ss EXCEPT !["prediction_result"] = r.prediction,
              !["confidence_score"] = r.confidence,
              !["analyzed_image_hash"] = h,
              !["analysis_done"] = TRUE,
              !["analysis_timestamp"] = Some(t) ]

\* the image-error handler clearing the session
on_image_error_resets(ss) == reset_analysis_state(ss)

\* except Exception as e: st.error(...): the handler of the image-processing
\* try reports the exception and assigns no key
on_image_error(ss) == ss

\* What a run leaves behind when it ends without entering the progress loop.
Ended(ss, view, notice, img, h, handler, rerun) ==
  [ ss |-> ss, view |-> view, notice |-> notice, image |-> img, hash |-> h,
    pc |-> "idle", handler |-> handler, rerun |-> rerun, uploader |-> TRUE ]

\* One run of the detection module up to the end of the script, to st.stop(),
\* to st.rerun(), or to the first iteration of the progress loop.
detection_module(ss, m, up, click) ==
  IF ~detection_available(m)
    THEN [ Ended(ss, "model_unavailable", "none", None, None, "none", FALSE)
             EXCEPT !.uploader = FALSE ]
  ELSE IF up = None
    THEN Ended(ss, "upload_prompt", "none", None, None, "none", FALSE)
  ELSE IF ImageOpen(up[1]) = None
    THEN Ended(on_image_error(ss), "decode_error", "none", None, None, "none", FALSE)
  ELSE
    LET img == ImageOpen(up[1])
        h == get_image_hash(img[1])
        ss1 == IF is_new_image(ss, h) THEN reset_analysis_state(ss) ELSE ss
    IN  IF awaiting_analysis(ss1)
          THEN IF click = "analyse"
                 THEN [ Ended(ss1, "analyzing", "none", img, Some(h), "analyse", FALSE)
                          EXCEPT !.pc = "progress" ]
                 ELSE Ended(ss1, "ready", "none", img, Some(h), "none", FALSE)
        ELSE IF results_view(ss1) = "display_error"
          THEN Ended(on_image_error(ss1), "display_error", "none", img, Some(h), "none", FALSE)
        ELSE IF click = "nouvelle"
          THEN Ended(reset_analysis_state(ss1), results_view(ss1), "none",
                     img, Some(h), "nouvelle", TRUE)
        ELSE IF click = "share"
          THEN Ended(ss1, results_view(ss1), "share", img, Some(h), "share", FALSE)
        ELSE IF click = "export"
          THEN Ended(ss1, results_view(ss1), "export", img, Some(h), "export", FALSE)
        ELSE Ended(ss1, results_view(ss1), "none", img, Some(h), "none", FALSE)

\* The forecast and dashboard modules do not touch the detection keys and do
\* not render the image uploader.
other_module(ss) ==
  [ Ended(ss, "other_module", "none", None, None, "none", FALSE)
      EXCEPT !.uploader = FALSE ]

\* The script, top to bottom: initialize_session_state(), then the module
\* the sidebar radio selects.
script(ss, m, feature, up, click) ==
  LET ss0 == initialize_session_state(ss)
  IN  IF feature = DETECTION THEN detection_module(ss0, m, up, click)
      ELSE other_module(ss0)

\* ------------------------------------------------------------ binary floating point
\* Python floats are IEEE binary64 and the regressor returns numpy float32.
\* A finite float is [s, m, e]: sign s (1 or -1), a natural number m written
\* as a sequence of limbs, least significant first, and an exponent e; its
\* value is s * m * 2^e.  Every operation computes the exact result and
\* rounds it to the precision of its format, ties to even.  Exponent range
\* (overflow, subnormals) is not modelled: the values here are far from it.
LimbBits == 12
Limb == 2^LimbBits
Precision == [float64 |-> 53, float32 |-> 24]

RECURSIVE BigNorm(_)
BigNorm(a) ==
  IF a # <<>> /\ a[Len(a)] = 0 THEN BigNorm(SubSeq(a, 1, Len(a) - 1)) ELSE a

RECURSIVE BigFromInt(_)
BigFromInt(n) == IF n = 0 THEN <<>> ELSE <<n % Limb>> \o BigFromInt(n \div Limb)

RECURSIVE BigToInt(_)
BigToInt(a) == IF a = <<>> THEN 0 ELSE a[1] + Limb * BigToInt(Tail(a))

LimbAt(a, k) == IF k <= Len(a) THEN a[k] ELSE 0

RECURSIVE BigAddC(_, _, _, _)
BigAddC(a, b, k, c) ==
  IF k > Len(a) /\ k > Len(b) THEN (IF c = 0 THEN <<>> ELSE <<c>>)
  ELSE LET t == LimbAt(a, k) + LimbAt(b, k) + c
       IN  <<t % Limb>> \o BigAddC(a, b, k + 1, t \div Limb)

BigAdd(a, b) == BigAddC(a, b, 1, 0)

\* a - b for a >= b
RECURSIVE BigSubC(_, _, _, _)
BigSubC(a, b, k, c) ==
  IF k > Len(a) THEN <<>>
  ELSE LET t == LimbAt(a, k) - LimbAt(b, k) - c
       IN  <<(t + Limb) % Limb>> \o BigSubC(a, b, k + 1, IF t < 0 THEN 1 ELSE 0)

BigSub(a, b) == BigNorm(BigSubC(a, b, 1, 0))

RECURSIVE BigCmpAt(_, _, _)
BigCmpAt(a, b, k) ==
  IF k = 0 THEN 0
  ELSE IF a[k] > b[k] THEN 1
  ELSE IF a[k] < b[k] THEN -1
  ELSE BigCmpAt(a, b, k - 1)

\* -1, 0 or 1 as a < b, a = b or a > b
BigCmp(a, b) ==
  IF Len(a) > Len(b) THEN 1
  ELSE IF Len(a) < Len(b) THEN -1
  ELSE BigCmpAt(a, b, Len(a))

RECURSIVE BigMulSmallC(_, _, _, _)
BigMulSmallC(a, n, k, c) ==
  IF k > Len(a) THEN (IF c = 0 THEN <<>> ELSE <<c>>)
  ELSE LET t == a[k] * n + c
       IN  <<t % Limb>> \o BigMulSmallC(a, n, k + 1, t \div Limb)

\* a * n for 0 < n <= Limb
BigMulSmall(a, n) == BigMulSmallC(a, n, 1, 0)

RECURSIVE BigMul(_, _)
BigMul(a, b) ==
  IF a = <<>> \/ b = <<>> THEN <<>>
  ELSE LET r == BigMul(a, Tail(b))
       IN  BigAdd(BigMulSmall(a, b[1]), IF r = <<>> THEN <<>> ELSE <<0>> \o r)

\* quotient and remainder of the limbs 1..k of a, with r carried in from above
RECURSIVE BigDivSmall(_, _, _, _)
BigDivSmall(a, d, k, r) ==
  IF k = 0 THEN [q |-> <<>>, r |-> r]
  ELSE LET cur == r * Limb + a[k]
           rest == BigDivSmall(a, d, k - 1, cur % d)
       IN  [q |-> rest.q \o <<cur \div d>>, r |-> rest.r]

BigShl(a, k) ==
  IF a = <<>> THEN <<>>
  ELSE [ j \in 1 .. (k \div LimbBits) |-> 0 ] \o BigMulSmall(a, 2^(k % LimbBits))

BigShr(a, k) ==
  LET n == k \div LimbBits
      rest == IF n >= Len(a) THEN <<>> ELSE SubSeq(a, n + 1, Len(a))
  IN  BigNorm(BigDivSmall(rest, 2^(k % LimbBits), Len(rest), 0).q)

RECURSIVE BitLen(_)
BitLen(n) == IF n = 0 THEN 0 ELSE 1 + BitLen(n \div 2)

BigBitLen(a) == IF a = <<>> THEN 0 ELSE LimbBits * (Len(a) - 1) + BitLen(a[Len(a)])

\* x rounded to p significant bits, ties to even
RoundTo(x, p) ==
  LET L == BigBitLen(x.m)
      k == L - p
      q == BigShr(x.m, k)
      rem == BigSub(x.m, BigShl(q, k))
      c == BigCmp(rem, BigShl(<<1>>, k - 1))
      up == c > 0 \/ (c = 0 /\ q[1] % 2 = 1)
  IN  IF L <= p THEN x
      ELSE [s |-> x.s, m |-> IF up THEN BigAdd(q, <<1>>) ELSE q, e |-> x.e + k]

FloatOfInt(n) ==
  [s |-> IF n < 0 THEN -1 ELSE 1, m |-> BigFromInt(IF n < 0 THEN -n ELSE n), e |-> 0]

\* the float of precision p nearest to n / d, for n >= 0 and 0 < d < Limb:
\* the quotient with p + 2 bits or more, and one more bit saying whether
\* the division left a remainder
Ratio(n, d, p) ==
  LET sh == p + 2 + BitLen(d)
      num == BigShl(BigFromInt(n), sh)
      dv == BigDivSmall(num, d, Len(num), 0)
      m == BigAdd(BigShl(BigNorm(dv.q), 1), IF dv.r = 0 THEN <<>> ELSE <<1>>)
  IN  RoundTo([s |-> 1, m |-> m, e |-> 0 - sh - 1], p)

FMul(a, b, p) ==
  RoundTo([s |-> a.s * b.s, m |-> BigMul(a.m, b.m), e |-> a.e + b.e], p)

\* a - b for a >= 0 and b >= 0
FSub(a, b, p) ==
  LET e0 == IF a.e < b.e THEN a.e ELSE b.e
      ma == BigShl(a.m, a.e - e0)
      mb == BigShl(b.m, b.e - e0)
  IN  RoundTo(IF BigCmp(ma, mb) >= 0
                THEN [s |-> 1, m |-> BigSub(ma, mb), e |-> e0]
                ELSE [s |-> -1, m |-> BigSub(mb, ma), e |-> e0], p)

\* int(x): truncation toward zero
FTrunc(x) ==
  x.s * BigToInt(IF x.e >= 0 THEN BigShl(x.m, x.e) ELSE BigShr(x.m, 0 - x.e))

\* -1, 0 or 1 as a < b, a = b or a > b, for a >= 0 and b >= 0
FCmp(a, b) ==
  LET e0 == IF a.e < b.e THEN a.e ELSE b.e
  IN  BigCmp(BigShl(a.m, a.e - e0), BigShl(b.m, b.e - e0))

\* ------------------------------------------------------------ forecast module
\* option lists of the selectboxes
countries == << "Senegal", "Mali", "Guinea", "Ivory Coast", "Burkina Faso" >>
months == << "Mai", "Juin", "Juillet", "Aout", "Septembre", "Octobre" >>
populations == << "Petite (<50k)", "Moyenne (50k-200k)", "Grande (>200k)" >>

city_options ==
  "Senegal" :> << "Dakar", "Thies", "Saint-Louis", "Ziguinchor" >> @@
  "Mali" :> << "Bamako", "Sikasso", "Kayes", "Mopti" >> @@
  "Guinea" :> << "Conakry", "Nzerekore", "Kindia", "Labe" >> @@
  "Ivory Coast" :> << "Abidjan", "Yamoussoukro", "Bouake", "Daloa" >> @@
  "Burkina Faso" :> << "Ouagadougou", "Bobo-Dioulasso", "Koudougou", "Banfora" >>

\* the values the widgets have before the user touches them
default_inputs ==
  [ temperature |-> 30, rainfall |-> 120, humidity |-> 70, previous_cases |-> 20,
    population |-> populations[1], healthcare_index |-> 5,
    country |-> countries[1], city |-> city_options[countries[1]][1],
    month |-> months[1] ]

month_map ==
  "Mai" :> 0 @@ "Juin" :> 1 @@ "Juillet" :> 2 @@ "Aout" :> 3 @@
  "Septembre" :> 4 @@ "Octobre" :> 5

\* the list of cities with the capitals first
all_cities_capitals_first ==
  << "Dakar", "Bamako", "Conakry", "Abidjan", "Ouagadougou", "Thies", "Saint-Louis",
     "Ziguinchor", "Sikasso", "Kayes", "Mopti", "Nzerekore", "Kindia", "Labe",
     "Yamoussoukro", "Bouake", "Daloa", "Bobo-Dioulasso", "Koudougou", "Banfora" >>

all_cities ==
  << "Dakar", "Thies", "Saint-Louis", "Ziguinchor", "Bamako", "Sikasso", "Kayes", "Mopti",
     "Conakry", "Nzerekore", "Kindia", "Labe", "Abidjan", "Yamoussoukro", "Bouake", "Daloa",
     "Ouagadougou", "Bobo-Dioulasso", "Koudougou", "Banfora" >>

\* {c: i for i, c in enumerate(all_cities)}
city_map ==
  [ c \in { all_cities[k] : k \in 1 .. Len(all_cities) } |->
      (CHOOSE k \in 1 .. Len(all_cities) : all_cities[k] = c) - 1 ]

country_map ==
  "Senegal" :> 0 @@ "Mali" :> 1 @@ "Guinea" :> 2 @@ "Ivory Coast" :> 3 @@
  "Burkina Faso" :> 4

\* the feature vector with humidity and rainfall exchanged
input_data_swapped(req) ==
  Some(<< country_map[req.country], city_map[req.city], month_map[req.month],
          req.temperature, req.rainfall, req.humidity, req.previous_cases >>)

\* input_data = [[country_map[country], city_map[city], month_map[month],
\* temperature, humidity, rainfall, previous_cases]]; None stands for the
\* KeyError of a dictionary lookup
input_data(req) ==
  IF /\ req.country \in DOMAIN country_map
     /\ req.city \in DOMAIN city_map
     /\ req.month \in DOMAIN month_map
    THEN Some(<< country_map[req.country], city_map[req.city], month_map[req.month],
                 req.temperature, req.humidity, req.rainfall, req.previous_cases >>)
  ELSE None

\* {"Petite (<50k)": 0.7, "Moyenne (50k-200k)": 1.0, "Grande (>200k)": 1.5}[population]
population_factor(population) ==
  CASE population = "Petite (<50k)" -> Ratio(7, 10, Precision.float64)
    [] population = "Moyenne (50k-200k)" -> Ratio(10, 10, Precision.float64)
    [] population = "Grande (>200k)" -> Ratio(15, 10, Precision.float64)

\* healthcare_factor = 1.2 - (healthcare_index / 10)
healthcare_factor(healthcare_index) ==
  FSub(Ratio(12, 10, Precision.float64), Ratio(healthcare_index, 10, Precision.float64),
       Precision.float64)

\* What numpy.float32 * float gives: float64 under value-based promotion
\* (NumPy 1), float32 when the Python float is weakly typed (NumPy 2).
NumpyPromotions == {"float64", "float32"}

\* base_prediction * population_factor * healthcare_factor, left to right
product(base_prediction, population, healthcare_index, promotion) ==
  LET p == Precision[promotion]
      pf == RoundTo(population_factor(population), p)
      hf == RoundTo(healthcare_factor(healthcare_index), p)
  IN  FMul(FMul(base_prediction, pf, p), hf, p)

\* final_prediction = max(0, int(base_prediction * population_factor * healthcare_factor))
final_prediction(base_prediction, population, healthcare_index, promotion) ==
  Max(0, FTrunc(product(base_prediction, population, healthcare_index, promotion)))

\* the forecast gate testing the detection model
forecast_gate_on_detection(m) == m.detection_loaded

\* if not models['forecast_loaded']: st.error(...); st.stop()
forecast_available(m) == m.forecast_loaded

reset_forecast_state(ss) ==
  [ ss EXCEPT !["forecast_done"] = FALSE, !["forecast_result"] = None ]

\* the commit updating a record that exists instead of replacing it
save_forecast_partial(ss, result) ==
  [ ss EXCEPT !["forecast_result"] =
                IF @ = None THEN Some(result)
                ELSE Some([ @[1] EXCEPT !.prediction = result.prediction,
                                        !.timestamp = result.timestamp ]),
              !["forecast_done"] = TRUE ]

\* the commit without the forecast_done assignment
save_forecast_without_done(ss, result) ==
  [ ss EXCEPT !["forecast_result"] = Some(result) ]

\* st.session_state.forecast_result = {...}; st.session_state.forecast_done = True
save_forecast(ss, result) ==
  [ ss EXCEPT !["forecast_result"] = Some(result), !["forecast_done"] = TRUE ]

\* What model.predict can do in the forecast handler: return a float32,
\* return NaN (int() then raises ValueError), or raise.  BasePredictions
\* are the values given to the adjustment alone, ForecastOutcomes what the
\* regressor does in a session.
Dyadic(s, n, e) == [s |-> s, m |-> BigFromInt(n), e |-> e]

\* confidence = max(prediction, 1 - prediction) on the float32 that
\* model.predict returns: 1 - prediction is rounded to float32, and max
\* keeps its first argument unless the second is greater.
confidence(prediction) ==
  LET other == FSub(FloatOfInt(1), prediction, Precision.float32)
  IN  IF FCmp(other, prediction) > 0 THEN other ELSE prediction
BasePredictions ==
  { Dyadic(-1, 5, 0), Dyadic(1, 79, -2), Dyadic(1, 20, 0), Dyadic(1, 30, 0),
    Dyadic(1, 49, 0), Dyadic(1, 50, 0) }
ForecastOutcomes ==
  { [kind |-> "value", base |-> b] : b \in { Dyadic(1, 30, 0), Dyadic(1, 50, 0) } } \cup
  { [kind |-> k, base |-> Dyadic(1, 0, 0)] : k \in {"nan", "raise"} }

\* final_prediction for every value the regressor and the widgets can give
final_predictions ==
  [ promotion \in NumpyPromotions |->
    [ b \in BasePredictions |->
      [ population \in { populations[k] : k \in 1 .. Len(populations) } |->
        [ h \in 1 .. 10 |-> final_prediction(b, population, h, promotion) ] ] ] ]

\* The body of the try of "Generer la Prevision" after the spinner: the
\* session_state it leaves and the message of the exception it raised, if any.
generate(ss, req, outcome, promotion, t) ==
  IF input_data(req) = None
    THEN [ss |-> ss, error |-> Some("KeyError"), invoked |-> FALSE]
  ELSE IF outcome.kind = "raise"
    THEN [ss |-> ss, error |-> Some("predict failed"), invoked |-> TRUE]
  ELSE IF outcome.kind = "nan"
    THEN [ss |-> ss, error |-> Some("cannot convert float NaN to integer"),
          invoked |-> TRUE]
  ELSE [ss |-> save_forecast(ss,
                  [ prediction |-> final_predictions[promotion][outcome.base]
                                                    [req.population][req.healthcare_index],
                    city |-> req.city, country |-> req.country, month |-> req.month,
                    timestamp |-> t ]),
        error |-> None, invoked |-> TRUE]

\* the tiering with the lower threshold included in "Faible"
risk_level_inclusive(prediction) ==
  IF prediction <= 20 THEN "Faible" ELSE IF prediction < 50 THEN "Modere" ELSE "Eleve"

\* "Faible" if result['prediction'] < 20 else "Modere" if result['prediction'] < 50 else "Eleve"
risk_level(prediction) ==
  IF prediction < 20 THEN "Faible" ELSE IF prediction < 50 THEN "Modere" ELSE "Eleve"

\* confidence_score = min(95, 75 + (healthcare_index * 2))
confidence_score(healthcare_index) ==
  IF 75 + healthcare_index * 2 < 95 THEN 75 + healthcare_index * 2 ELSE 95

\* if st.session_state.forecast_done and st.session_state.forecast_result:
forecast_shown(ss) == ss["forecast_done"] /\ ss["forecast_result"] # None

\* the results section showing the place and month of the form
results_section_of_form(ss, inp, whole) ==
  IF forecast_shown(ss)
    THEN LET result == ss["forecast_result"][1]
         IN  Some([ prediction |-> result.prediction, city |-> inp.city,
                    country |-> inp.country, month |-> inp.month,
                    timestamp |-> result.timestamp,
                    risk_level |-> risk_level(result.prediction),
                    confidence |-> IF whole THEN Some(confidence_score(inp.healthcare_index))
                                   ELSE None ])
  ELSE None

\* The results section: the card, and the confidence metric, which comes
\* after the "Nouvelle Prevision" button and uses the widget value of the run.
results_section(ss, inp, whole) ==
  IF forecast_shown(ss)
    THEN LET result == ss["forecast_result"][1]
         IN  Some([ prediction |-> result.prediction, city |-> result.city,
                    country |-> result.country, month |-> result.month,
                    timestamp |-> result.timestamp,
                    risk_level |-> risk_level(result.prediction),
                    confidence |-> IF whole THEN Some(confidence_score(inp.healthcare_index))
                                   ELSE None ])
  ELSE None

\* One run of the forecast module up to the end of the script, to st.stop(),
\* to st.rerun(), or to the spinner of "Generer la Prevision".
forecast_module(ss, m, inp, click) ==
  IF ~forecast_available(m)
    THEN [ss |-> ss, view |-> "forecast_unavailable", report |-> None,
          pc |-> "idle", rerun |-> FALSE, request |-> None]
  ELSE IF click = "generate"
    THEN [ss |-> ss, view |-> "forecast_spinner", report |-> None,
          pc |-> "spinner", rerun |-> FALSE, request |-> Some(inp)]
  ELSE IF ~forecast_shown(ss)
    THEN [ss |-> ss, view |-> "forecast_form", report |-> None,
          pc |-> "idle", rerun |-> FALSE, request |-> None]
  ELSE IF click = "nouvelle_prevision"
    THEN [ss |-> reset_forecast_state(ss), view |-> "forecast_results",
          report |-> results_section(ss, inp, FALSE),
          pc |-> "idle", rerun |-> TRUE, request |-> None]
  ELSE [ss |-> ss, view |-> "forecast_results", report |-> results_section(ss, inp, TRUE),
        pc |-> "idle", rerun |-> FALSE, request |-> None]

\* ------------------------------------------------------------ front end
\* Views on which each widget is on the page.
AnalyseViews == {"ready", "analyzing", "inference_error"}
ResultViews == {"positive", "negative"}
UploaderViews ==
  {"upload_prompt", "decode_error", "display_error"} \cup AnalyseViews \cup ResultViews

Buttons(view) ==
  IF view \in AnalyseViews THEN {"analyse"}
  ELSE IF view \in ResultViews THEN {"nouvelle", "share", "export"}
  ELSE {}

RECURSIVE SumCalls(_, _)
SumCalls(f, S) ==
  IF S = {} THEN 0
  ELSE LET x == CHOOSE y \in S : TRUE IN f[x] + SumCalls(f, S \ {x})

Fingerprints == { get_image_hash(ImageOpen(f)[1]) : f \in { g \in Files : g.ok } }
AnalysedFileOf(h) == CHOOSE f \in Files : f.ok /\ get_image_hash(ImageOpen(f)[1]) = h

InFlight == IF pc = "progress" THEN 1 ELSE 0

\* ------------------------------------------------------------ initial state
\* A new session: empty session_state, the first run requested, the
\* detection module selected (index=0), nothing uploaded.
Init ==
  /\ session_state = [ k \in {} |-> None ]
  /\ \E d \in BOOLEAN, f \in BOOLEAN : models = load_ai_models(d, f)
  /\ uploaded_file = None
  /\ selected_feature = DETECTION
  /\ clicked = "none"
  /\ rerun_requested = TRUE
  /\ pc = "idle"
  /\ i = 0
  /\ image = None
  /\ current_image_hash = None
  /\ screen = [view |-> "blank", notice |-> "none"]
  /\ now = 0
  /\ calls = [ h \in Fingerprints |-> 0 ]
  /\ last_call = None
  /\ analysed = {}
  /\ last_handler = "none"
  /\ was_reset = FALSE
  /\ inputs = default_inputs
  /\ request = None
  /\ report = None
  /\ numpy_promotion = "float64"
  /\ forecast_call = None

history == << calls, last_call, analysed >>
run_locals == << image, current_image_hash >>
widgets == << uploaded_file, selected_feature, clicked >>
\* The forecast form and the regressor, which the detection module never uses.
forecast_vars == << inputs, request, report, numpy_promotion, forecast_call >>

\* ------------------------------------------------------------ user events
\* Each front-end event changes one widget and requests a rerun.
UserUpload ==
  /\ ~rerun_requested
  /\ screen.view \in UploaderViews
  /\ \E up \in {None} \cup { Some(f) : f \in Files } :
       /\ up # uploaded_file
       /\ uploaded_file' = up
  /\ rerun_requested' = TRUE
  /\ UNCHANGED << session_state, models, selected_feature, clicked, pc, i,
                  run_locals, screen, now, history, last_handler, was_reset,
                  forecast_vars >>

UserNavigate ==
  /\ ~rerun_requested
  /\ screen.view # "blank"
  /\ \E f \in Features \ {selected_feature} : selected_feature' = f
  /\ rerun_requested' = TRUE
  /\ UNCHANGED << session_state, models, uploaded_file, clicked, pc, i,
                  run_locals, screen, now, history, last_handler, was_reset,
                  forecast_vars >>

UserClick ==
  /\ ~rerun_requested
  /\ \E b \in Buttons(screen.view) :
       /\ b = "analyse" => SumCalls(calls, Fingerprints) + InFlight < MaxCalls
       /\ clicked' = b
  /\ rerun_requested' = TRUE
  /\ UNCHANGED << session_state, models, uploaded_file, selected_feature, pc, i,
                  run_locals, screen, now, history, last_handler, was_reset,
                  forecast_vars >>

\* ------------------------------------------------------------ script runs
\* A requested run starts once no run is executing, and executes up to its
\* end or up to the progress loop.  Button triggers are consumed by the run.
\* A run that does not render the uploader may leave its value or drop it.
StartRun ==
  /\ pc = "idle"
  /\ rerun_requested
  /\ LET r == script(session_state, models, selected_feature, uploaded_file, clicked)
     IN  /\ session_state' = r.ss
         /\ screen' = [view |-> r.view, notice |-> r.notice]
         /\ image' = r.image
         /\ current_image_hash' = r.hash
         /\ pc' = r.pc
         /\ rerun_requested' = r.rerun
         /\ last_handler' = r.handler
         /\ was_reset' = (was_reset \/ r.handler = "nouvelle")
         /\ uploaded_file' \in IF r.uploader THEN {uploaded_file} ELSE {uploaded_file, None}
  /\ clicked' = "none"
  /\ i' = 0
  /\ UNCHANGED << models, selected_feature, now, history, forecast_vars >>

\* One iteration of the progress loop: progress_bar.progress(i + 1), the
\* status text, time.sleep(0.025).
ProgressStep ==
  /\ pc = "progress"
  /\ i < ProgressSteps
  /\ ~rerun_requested
  /\ i' = i + 1
  /\ UNCHANGED << session_state, models, widgets, rerun_requested, pc,
                  run_locals, screen, now, history, last_handler, was_reset,
                  forecast_vars >>

\* A rerun was requested while the loop runs: the next st.* call raises the
\* rerun exception and the run ends there.
Interrupt ==
  /\ pc = "progress"
  /\ i < ProgressSteps
  /\ rerun_requested
  /\ pc' = "idle"
  /\ i' = 0
  /\ UNCHANGED << session_state, models, widgets, rerun_requested,
                  run_locals, screen, now, history, last_handler, was_reset,
                  forecast_vars >>

\* After the loop: the classifier call, then the error branch or the commit.
\* st.error is a st.* call: with a rerun pending the run ends inside it and
\* the message is not rendered.  After the commit the run ends in a rerun
\* either way (st.rerun(), or the pending one).
Analyse ==
  /\ pc = "progress"
  /\ i = ProgressSteps
  /\ \E outcome \in Outcomes :
       LET img == image[1]
           h == get_image_hash(img)
           r == process_image_prediction(img, models.detection_model, outcome)
       IN  /\ calls' = [calls EXCEPT ![h] = @ + 1]
           /\ last_call' = Some([image |-> img, result |-> r])
           /\ IF Truthy(r.error)
                THEN /\ screen' = IF rerun_requested THEN screen
                                  ELSE [view |-> "inference_error", notice |-> r.error[1]]
                     /\ UNCHANGED << session_state, rerun_requested, analysed, now >>
                ELSE /\ \E t \in now .. MaxTime :
                          /\ now' = t
                          /\ session_state' =
                               save_results(session_state, r, current_image_hash, t)
                     /\ screen' = [view |-> "analysis_cleared", notice |-> "none"]
                     /\ rerun_requested' = TRUE
                     /\ analysed' = IF r.prediction # None THEN analysed \cup {h} ELSE analysed
  /\ pc' = "idle"
  /\ i' = 0
  /\ UNCHANGED << models, widgets, run_locals, last_handler, was_reset, forecast_vars >>

Next ==
  \/ UserUpload
  \/ UserNavigate
  \/ UserClick
  \/ StartRun
  \/ ProgressStep
  \/ Interrupt
  \/ Analyse

Spec == Init /\ [][Next]_vars

\* ------------------------------------------------------------ forecast session
\* The session of a user who has selected the forecast module after the
\* first run of the script.  The detection module is not run again.
\* Values the user picks in the form.
CountryChoices == { countries[1], countries[2] }
CityChoices == { 1, 2 }
MonthChoices == { months[1] }
PopulationChoices == { populations[1], populations[2] }
HealthcareChoices == { 2, 5 }

ForecastFormViews == {"forecast_form", "forecast_results", "forecast_spinner"}

ForecastButtons(view) ==
  IF view = "forecast_results" THEN {"generate", "nouvelle_prevision"}
  ELSE IF view \in ForecastFormViews THEN {"generate"}
  ELSE {}

\* The widget values after one change.  The options of the city selectbox
\* are those of the selected country: a new country gives a new selectbox,
\* which shows its first option.
Changes(inp) ==
  { [inp EXCEPT !.country = c, !.city = city_options[c][1]] : c \in CountryChoices } \cup
  { [inp EXCEPT !.city = city_options[inp.country][k]] : k \in CityChoices } \cup
  { [inp EXCEPT !.month = mo] : mo \in MonthChoices } \cup
  { [inp EXCEPT !.population = p] : p \in PopulationChoices } \cup
  { [inp EXCEPT !.healthcare_index = h] : h \in HealthcareChoices }

detection_vars ==
  << uploaded_file, selected_feature, i, image, current_image_hash, models,
     calls, last_call, analysed, last_handler, was_reset >>

\* Detection variables of a session in which nothing was uploaded.
NothingUploaded ==
  /\ uploaded_file = None
  /\ i = 0
  /\ image = None
  /\ current_image_hash = None
  /\ calls = [ h \in Fingerprints |-> 0 ]
  /\ last_call = None
  /\ analysed = {}
  /\ last_handler = "none"
  /\ was_reset = FALSE

InitForecast ==
  /\ \E d \in BOOLEAN, f \in BOOLEAN : models = load_ai_models(d, f)
  /\ LET r == script([ k \in {} |-> None ], models, DETECTION, None, "none")
     IN  /\ session_state = r.ss
         /\ screen = [view |-> r.view, notice |-> r.notice]
  /\ selected_feature = FORECAST
  /\ clicked = "none"
  /\ rerun_requested = TRUE
  /\ pc = "idle"
  /\ now = 0
  /\ NothingUploaded
  /\ inputs = default_inputs
  /\ request = None
  /\ report = None
  /\ numpy_promotion \in NumpyPromotions
  /\ forecast_call = None

ForecastUserChange ==
  /\ ~rerun_requested
  /\ screen.view \in ForecastFormViews
  /\ \E inp \in Changes(inputs) \ {inputs} : inputs' = inp
  /\ rerun_requested' = TRUE
  /\ UNCHANGED << session_state, clicked, pc, screen, now, request, report,
                  numpy_promotion, forecast_call, detection_vars >>

ForecastUserClick ==
  /\ ~rerun_requested
  /\ \E b \in ForecastButtons(screen.view) : clicked' = b
  /\ rerun_requested' = TRUE
  /\ UNCHANGED << session_state, pc, screen, now, inputs, request, report,
                  numpy_promotion, forecast_call, detection_vars >>

\* A requested run starts once no run is executing, and executes up to its
\* end or up to the spinner.
ForecastStartRun ==
  /\ pc = "idle"
  /\ rerun_requested
  /\ selected_feature = FORECAST
  /\ LET r == forecast_module(initialize_session_state(session_state), models,
                              inputs, clicked)
     IN  /\ session_state' = r.ss
         /\ screen' = [view |-> r.view, notice |-> "none"]
         /\ report' = r.report
         /\ pc' = r.pc
         /\ rerun_requested' = r.rerun
         /\ request' = r.request
  /\ clicked' = "none"
  /\ forecast_call' = None
  /\ UNCHANGED << now, inputs, numpy_promotion, detection_vars >>

\* with st.spinner(...): time.sleep(1.5).  Leaving the spinner is a st.*
\* call: with a rerun pending the run ends there.
SpinnerExit ==
  /\ pc = "spinner"
  /\ ~rerun_requested
  /\ pc' = "predict"
  /\ UNCHANGED << session_state, clicked, rerun_requested, screen, now, inputs,
                  request, report, numpy_promotion, forecast_call, detection_vars >>

ForecastInterrupt ==
  /\ pc = "spinner"
  /\ rerun_requested
  /\ pc' = "idle"
  /\ request' = None
  /\ UNCHANGED << session_state, clicked, rerun_requested, screen, now, inputs,
                  report, numpy_promotion, forecast_call, detection_vars >>

\* After the spinner: the encoding, the regressor call, the adjustment and
\* the commit followed by st.rerun(), or the except branch.  st.error is a
\* st.* call: with a rerun pending the run ends inside it and the message
\* is not rendered; otherwise the script goes on to the results section.
Generate ==
  /\ pc = "predict"
  /\ \E outcome \in ForecastOutcomes, t \in now .. MaxTime :
       LET req == request[1]
           g == generate(session_state, req, outcome, numpy_promotion, t)
       IN  /\ forecast_call' =
                IF g.invoked
                  THEN Some([request |-> req, input_data |-> input_data(req),
                             outcome |-> outcome])
                ELSE forecast_call
           /\ session_state' = g.ss
           /\ IF g.error # None
                THEN /\ t = now
                     /\ screen' = IF rerun_requested THEN screen
                                  ELSE [view |-> IF forecast_shown(g.ss)
                                                   THEN "forecast_results"
                                                 ELSE "forecast_form",
                                        notice |-> g.error[1]]
                     /\ report' = IF rerun_requested THEN report
                                  ELSE results_section(g.ss, req, TRUE)
                     /\ UNCHANGED << rerun_requested, now >>
                ELSE /\ now' = t
                     /\ rerun_requested' = TRUE
                     /\ UNCHANGED << screen, report >>
  /\ pc' = "idle"
  /\ request' = None
  /\ UNCHANGED << clicked, inputs, numpy_promotion, detection_vars >>

NextForecast ==
  \/ ForecastUserChange
  \/ ForecastUserClick
  \/ ForecastStartRun
  \/ SpinnerExit
  \/ ForecastInterrupt
  \/ Generate

SpecForecast == InitForecast /\ [][NextForecast]_vars

\* ------------------------------------------------------------ the encoding alone
\* Every country, city and month of the option lists, consistent or not,
\* given to the encoding of "Generer la Prevision".
AllRequests ==
  { [default_inputs EXCEPT !.country = countries[c], !.city = all_cities[k],
                           !.month = months[mo]] :
      c \in 1 .. Len(countries), k \in 1 .. Len(all_cities), mo \in 1 .. Len(months) }

AtRest ==
  /\ models = load_ai_models(TRUE, TRUE)
  /\ LET r == script([ k \in {} |-> None ], models, DETECTION, None, "none")
     IN  /\ session_state = r.ss
         /\ screen = [view |-> r.view, notice |-> r.notice]
  /\ selected_feature = FORECAST
  /\ clicked = "none"
  /\ rerun_requested = FALSE
  /\ now = 0
  /\ NothingUploaded
  /\ report = None

InitEncoding ==
  /\ AtRest
  /\ pc = "predict"
  /\ \E req \in AllRequests : inputs = req /\ request = Some(req)
  /\ numpy_promotion = "float64"
  /\ forecast_call = None

\* input_data = [[...]] and, unless a lookup raised, the regressor call on
\* it, which raises here.
Encode ==
  /\ pc = "predict"
  /\ LET g == generate(session_state, request[1],
                       [kind |-> "raise", base |-> Dyadic(1, 0, 0)], numpy_promotion, now)
     IN  forecast_call' =
           IF g.invoked
             THEN Some([request |-> request[1], input_data |-> input_data(request[1]),
                        outcome |-> [kind |-> "raise", base |-> Dyadic(1, 0, 0)]])
           ELSE None
  /\ pc' = "idle"
  /\ UNCHANGED << session_state, clicked, rerun_requested, screen, now, inputs,
                  request, report, numpy_promotion, detection_vars >>

NextEncoding == Encode

SpecEncoding == InitEncoding /\ [][NextEncoding]_vars

\* ------------------------------------------------------------ the adjustment alone
\* Every population tier, every healthcare index of the slider and every
\* base prediction, given to the adjustment and the commit; then the results
\* section of the runs that follow.
AdjustRequests ==
  { [default_inputs EXCEPT !.population = populations[k], !.healthcare_index = h] :
      k \in 1 .. Len(populations), h \in 1 .. 10 }

InitAdjustment ==
  /\ AtRest
  /\ pc = "predict"
  /\ \E req \in AdjustRequests : inputs = req /\ request = Some(req)
  /\ numpy_promotion \in NumpyPromotions
  /\ \E b \in BasePredictions :
       forecast_call = Some([request |-> request[1], input_data |-> input_data(request[1]),
                             outcome |-> [kind |-> "value", base |-> b]])

\* The adjustment and the commit for the value the regressor returned.
Adjust ==
  /\ pc = "predict"
  /\ session_state' = generate(session_state, request[1], forecast_call[1].outcome,
                               numpy_promotion, now).ss
  /\ pc' = "idle"
  /\ UNCHANGED << clicked, rerun_requested, screen, now, inputs, request, report,
                  numpy_promotion, forecast_call, detection_vars >>

ShowResults ==
  /\ pc = "idle"
  /\ report = None
  /\ report' = results_section(session_state, inputs, TRUE)
  /\ UNCHANGED << session_state, clicked, rerun_requested, pc, screen, now, inputs,
                  request, numpy_promotion, forecast_call, detection_vars >>

\* The healthcare_index slider moved after the commit: the rerun it
\* requests renders the results section again.
ChangeHealthcareIndex ==
  /\ pc = "idle"
  /\ \E h \in (1 .. 10) \ {inputs.healthcare_index} :
       inputs' = [inputs EXCEPT !.healthcare_index = h]
  /\ report' = None
  /\ UNCHANGED << session_state, clicked, rerun_requested, pc, screen, now,
                  request, numpy_promotion, forecast_call, detection_vars >>

NextAdjustment ==
  \/ Adjust
  \/ ShowResults
  \/ ChangeHealthcareIndex

SpecAdjustment == InitAdjustment /\ [][NextAdjustment]_vars

\* ------------------------------------------------------------ the confidence alone
\* float32 scores in [0, 1] that the classifier can return: the multiples of
\* 1/128, two scores below the spacing of float32 near 1, the float32 next
\* above 0.5 and the one next below 1.
RawScores ==
  { Dyadic(1, k, -7) : k \in 0 .. 128 } \cup
  { Dyadic(1, 1, -25), Dyadic(1, 1, -30), Dyadic(1, 2^23 + 1, -24), Dyadic(1, 2^24 - 1, -24) }

\* The run is at the classifier call for an uploaded image, and the
\* classifier has returned a score.
InitConfidence ==
  /\ models = load_ai_models(TRUE, TRUE)
  /\ session_state = script([ k \in {} |-> None ], models, DETECTION, None, "none").ss
  /\ screen = [view |-> "analysing", notice |-> "none"]
  /\ selected_feature = DETECTION
  /\ clicked = "none"
  /\ rerun_requested = FALSE
  /\ now = 0
  /\ \E f \in { g \in Files : g.ok } :
       /\ uploaded_file = Some(f)
       /\ image = ImageOpen(f)
       /\ current_image_hash = Some(get_image_hash(image[1]))
  /\ pc = "progress"
  /\ i = ProgressSteps
  /\ calls = [ h \in Fingerprints |-> 0 ]
  /\ \E raw \in RawScores :
       last_call = Some([image |-> image[1],
                         result |-> [prediction |-> Some(raw), confidence |-> None,
                                     error |-> None]])
  /\ analysed = {}
  /\ last_handler = "none"
  /\ was_reset = FALSE
  /\ inputs = default_inputs
  /\ request = None
  /\ report = None
  /\ numpy_promotion = "float64"
  /\ forecast_call = None

\* The rest of process_image_prediction and the commit of its result.
Confide ==
  /\ pc = "progress"
  /\ last_call # None
  /\ LET raw == last_call[1].result.prediction[1]
         r == [prediction |-> Some(raw), confidence |-> Some(confidence(raw)),
               error |-> None]
     IN  /\ last_call' = Some([image |-> image[1], result |-> r])
         /\ session_state' = save_results(session_state, r, current_image_hash, now)
  /\ calls' = [calls EXCEPT ![current_image_hash[1]] = @ + 1]
  /\ analysed' = analysed \cup {current_image_hash[1]}
  /\ screen' = [view |-> "analysis_cleared", notice |-> "none"]
  /\ rerun_requested' = TRUE
  /\ pc' = "idle"
  /\ i' = 0
  /\ UNCHANGED << models, widgets, run_locals, last_handler, was_reset, now, forecast_vars >>

NextConfidence == Confide

SpecConfidence == InitConfidence /\ [][NextConfidence]_vars

\* ------------------------------------------------------------ the initialisation alone
\* The session states a script run can start from: the empty one of a new
\* session, and the initialised one with the detection fields cleared or
\* committed (with a score, or with None after an exception of empty
\* message) and the forecast fields cleared or committed.
MaxInitialisations == 2

Sessions ==
  LET ss0 == initialize_session_state([ k \in {} |-> None ])
      committed ==
        { save_results(ss0, process_image_prediction(ImageOpen(AnalysedFileOf(h))[1],
                                                     Some("malaria_detector_mobilenet.h5"), o),
                       Some(h), t) :
            o \in { x \in Outcomes : x.msg = "" }, h \in Fingerprints, t \in 0 .. MaxTime }
      detection == {ss0} \cup committed
  IN  { [ k \in {} |-> None ] } \cup detection \cup
      { generate(ss, default_inputs, o, "float64", t).ss :
          ss \in detection, o \in { x \in ForecastOutcomes : x.kind = "value" },
          t \in 0 .. MaxTime }

InitInitialize ==
  /\ session_state \in Sessions
  /\ models = load_ai_models(TRUE, TRUE)
  /\ selected_feature = DETECTION
  /\ clicked = "none"
  /\ rerun_requested = TRUE
  /\ pc = "idle"
  /\ screen = [view |-> "blank", notice |-> "none"]
  /\ now = 0
  /\ NothingUploaded
  /\ inputs = default_inputs
  /\ request = None
  /\ report = None
  /\ numpy_promotion = "float64"
  /\ forecast_call = None

\* initialize_session_state(), the first statement of every run
InitializeSessionState ==
  /\ i < MaxInitialisations
  /\ session_state' = initialize_session_state(session_state)
  /\ i' = i + 1
  /\ UNCHANGED << models, widgets, rerun_requested, pc, run_locals, screen, now,
                  history, last_handler, was_reset, forecast_vars >>

NextInitialize == InitializeSessionState

SpecInitialize == InitInitialize /\ [][NextInitialize]_vars

\* ------------------------------------------------------------ one module holding the other's result
\* Sessions in which one module is used while st.session_state holds the
\* result of the other, where the other's model was loaded: the detection
\* and dashboard modules with a stored forecast, and the forecast module
\* with a stored analysis.
StoredForecast ==
  generate(initialize_session_state([ k \in {} |-> None ]), default_inputs,
           [kind |-> "value", base |-> Dyadic(1, 30, 0)], "float64", 0).ss

AnalysedFile == CHOOSE f \in Files : f.ok /\ f.name = "a.png"

StoredAnalysis ==
  LET img == ImageOpen(AnalysedFile)[1]
      r == process_image_prediction(img, Some("malaria_detector_mobilenet.h5"),
                                    [ok |-> TRUE, score |-> 50, msg |-> ""])
  IN  [ ss |-> save_results(initialize_session_state([ k \in {} |-> None ]), r,
                            Some(get_image_hash(img)), 0),
        call |-> [image |-> img, result |-> r],
        hash |-> get_image_hash(img) ]

InitLifecycles ==
  /\ clicked = "none"
  /\ rerun_requested = TRUE
  /\ pc = "idle"
  /\ i = 0
  /\ image = None
  /\ current_image_hash = None
  /\ uploaded_file = None
  /\ screen = [view |-> "other_module", notice |-> "none"]
  /\ now = 0
  /\ last_handler = "none"
  /\ was_reset = FALSE
  /\ inputs = default_inputs
  /\ request = None
  /\ report = None
  /\ numpy_promotion = "float64"
  /\ forecast_call = None
  /\ \E d \in BOOLEAN, f \in BOOLEAN : models = load_ai_models(d, f)
  /\ \/ /\ selected_feature = DETECTION
        /\ session_state = IF models.forecast_loaded THEN StoredForecast
                           ELSE initialize_session_state([ k \in {} |-> None ])
        /\ calls = [ h \in Fingerprints |-> 0 ]
        /\ last_call = None
        /\ analysed = {}
     \/ /\ selected_feature = FORECAST
        /\ models.detection_loaded
        /\ session_state = StoredAnalysis.ss
        /\ calls = [ h \in Fingerprints |-> IF h = StoredAnalysis.hash THEN 1 ELSE 0 ]
        /\ last_call = Some(StoredAnalysis.call)
        /\ analysed = {StoredAnalysis.hash}
     \/ /\ selected_feature = FORECAST
        /\ ~models.detection_loaded
        /\ session_state = initialize_session_state([ k \in {} |-> None ])
        /\ calls = [ h \in Fingerprints |-> 0 ]
        /\ last_call = None
        /\ analysed = {}

\* the sidebar radio moved between the detection module and the dashboard
NavigateAway ==
  /\ selected_feature # FORECAST
  /\ UserNavigate
  /\ selected_feature' # FORECAST

\* a run of the detection module or of the dashboard
DetectionStartRun ==
  /\ selected_feature # FORECAST
  /\ StartRun

NextLifecycles ==
  \/ UserUpload
  \/ NavigateAway
  \/ UserClick
  \/ DetectionStartRun
  \/ ProgressStep
  \/ Interrupt
  \/ Analyse
  \/ ForecastUserChange
  \/ ForecastUserClick
  \/ ForecastStartRun
  \/ SpinnerExit
  \/ ForecastInterrupt
  \/ Generate

SpecLifecycles == InitLifecycles /\ [][NextLifecycles]_vars

\* ------------------------------------------------------------ uninterrupted runs
\* The detection module of a user who touches the page only while no run
\* is executing, so that no run is interrupted.  Both models are loaded.
\* The script thread goes on by itself: time.sleep(0.025) returns,
\* model.predict returns or raises, and st.rerun() after the commit starts
\* the next run.
InitProgress ==
  /\ Init
  /\ models = load_ai_models(TRUE, TRUE)

IdleUpload ==
  /\ pc = "idle"
  /\ UserUpload

IdleClick ==
  /\ pc = "idle"
  /\ UserClick

NextProgress ==
  \/ IdleUpload
  \/ IdleClick
  \/ StartRun
  \/ ProgressStep
  \/ Analyse

\* st.rerun() at the end of the commit: the run that follows it
CommitRerun ==
  /\ screen.view = "analysis_cleared"
  /\ StartRun

SpecProgress ==
  /\ InitProgress
  /\ [][NextProgress]_vars
  /\ WF_vars(ProgressStep)
  /\ WF_vars(Analyse)
  /\ WF_vars(CommitRerun)

\* ------------------------------------------------------------ properties
\* Reading a key of a session_state in which it may be absent.
Val(ss, k) == IF k \in DOMAIN ss THEN ss[k] ELSE None
AnalysisDone(ss) == "analysis_done" \in DOMAIN ss /\ ss["analysis_done"]
ResultFields(ss) ==
  << Val(ss, "prediction_result"), Val(ss, "confidence_score"),
     Val(ss, "analyzed_image_hash"), Val(ss, "analysis_timestamp") >>
Cleared(ss) == ~AnalysisDone(ss) /\ ResultFields(ss) = << None, None, None, None >>
\* A step from such a state that changes anything is a script run.
RunStarts == pc = "idle" /\ rerun_requested
Invoked(h) == calls'[h] # calls[h]
SomeInvoked == \E h \in Fingerprints : Invoked(h)

\* C1 (idempotent caching): a rerun of a Complete session whose uploaded
\* image has the stored fingerprint, and that is not the "Nouvelle Analyse"
\* click, leaves the four result fields and analysis_done unchanged, does not
\* enter the analyse handler and does not invoke the classifier.
C1_IdempotentCaching ==
  [][ ( /\ RunStarts
        /\ AnalysisDone(session_state)
        /\ current_image_hash' # None
        /\ current_image_hash' = Val(session_state, "analyzed_image_hash")
        /\ last_handler' # "nouvelle" )
      => ( /\ ResultFields(session_state') = ResultFields(session_state)
           /\ AnalysisDone(session_state')
           /\ calls' = calls
           /\ pc' = "idle" ) ]_vars

\* A Complete session that has been rerun at least twice with the same image
\* (the results view, then the "Partager" click).
C1_Witness ==
  /\ AnalysisDone(session_state)
  /\ screen.view \in ResultViews
  /\ screen.notice = "share"
  /\ current_image_hash = Val(session_state, "analyzed_image_hash")

\* C2 (invalidation): a rerun of a Complete session with a decodable image
\* whose fingerprint differs from the stored one leaves analysis_done False
\* and the four result fields None; and analysis_done only becomes True in a
\* step that invokes the classifier on the image whose fingerprint is stored.
C2_Invalidation ==
  [][ /\ ( /\ RunStarts
           /\ AnalysisDone(session_state)
           /\ current_image_hash' # None
           /\ current_image_hash' # Val(session_state, "analyzed_image_hash") )
         => Cleared(session_state')
      /\ ( ~AnalysisDone(session_state) /\ AnalysisDone(session_state') )
         => \E h \in Fingerprints :
              /\ calls'[h] = calls[h] + 1
              /\ Val(session_state', "analyzed_image_hash") = Some(h) ]_vars

\* Two images with different fingerprints have been analysed one after the
\* other without "Nouvelle Analyse": the second invalidated the first and was
\* analysed in its turn.
C2_Witness ==
  /\ AnalysisDone(session_state)
  /\ Cardinality(analysed) = 2
  /\ ~was_reset

\* C3 (detection session invariant): prediction_result and confidence_score
\* are non-None exactly when analysis_done is True, and analysis_done True
\* implies analyzed_image_hash and analysis_timestamp non-None.
C3_SessionInvariant ==
  /\ (Val(session_state, "prediction_result") # None) <=> AnalysisDone(session_state)
  /\ (Val(session_state, "confidence_score") # None) <=> AnalysisDone(session_state)
  /\ AnalysisDone(session_state) =>
       /\ Val(session_state, "analyzed_image_hash") # None
       /\ Val(session_state, "analysis_timestamp") # None

C5_InferenceFailure ==
  [][ ( SomeInvoked /\ last_call'[1].result.error # None )
      => ( /\ ~AnalysisDone(session_state')
           /\ Val(session_state', "prediction_result") = None
           /\ Val(session_state', "confidence_score") = None
           /\ screen'.view = "inference_error" ) ]_vars

\* C6 as stated (once per distinct input): the classifier is never invoked
\* on a fingerprint that has already been analysed successfully.
C6_OncePerInput ==
  [][ \A h \in Fingerprints : Invoked(h) => h \notin analysed ]_vars

\* C6 as amended (once per stored result): the classifier is never invoked
\* on an image whose fingerprint is the one a Complete session stores.
C6_OncePerStoredResult ==
  [][ \A h \in Fingerprints :
        Invoked(h) =>
          ~( AnalysisDone(session_state)
             /\ Val(session_state, "analyzed_image_hash") = Some(h) ) ]_vars

\* An image has been classified a second time after its result was cleared.
C6_Witness ==
  \E h \in analysed : calls[h] = 2

\* C7 (no concurrent double-run): while an analysis is in flight and a second
\* request for analysis is pending, the analysis in flight goes on (or ends
\* with the classifier call), and the request is consumed only by rejecting
\* it with ConcurrentAnalysisRejected.
C7_NoConcurrentDoubleRun ==
  [][ ( pc = "progress" /\ clicked = "analyse" )
      => ( /\ ( pc' = "progress" /\ i' >= i ) \/ SomeInvoked
           /\ clicked' = "none" => screen'.notice = "ConcurrentAnalysisRejected" ) ]_vars

\* C8 (classifier only when Ready): in every step that invokes the
\* classifier the run holds a decoded image, the detection model is loaded
\* and analysis_done is False; the analyse handler is never executing while
\* analysis_done is True.
C8_InvokedOnlyWhenReady ==
  [][ /\ SomeInvoked =>
           /\ ~AnalysisDone(session_state)
           /\ image # None
           /\ Invoked(get_image_hash(image[1]))
           /\ models.detection_loaded
           /\ models.detection_model # None
      /\ pc' = "progress" => ~AnalysisDone(session_state') /\ image' # None ]_vars

\* The classifier has been invoked and raised, leaving the session Ready.
C8_Witness ==
  /\ last_call # None
  /\ screen.view = "inference_error"
  /\ ~AnalysisDone(session_state)

\* C9 (reset): after the "Nouvelle Analyse" handler analysis_done is False
\* and the four result fields are None, and with the image still uploaded
\* the next run of the detection module offers the analysis again.
C9_Reset ==
  /\ [](last_handler = "nouvelle" => Cleared(session_state) /\ rerun_requested)
  /\ [][ ( /\ last_handler = "nouvelle"
           /\ RunStarts
           /\ selected_feature = DETECTION )
         => screen'.view = "ready" /\ Cleared(session_state') ]_vars

\* After "Nouvelle Analyse" a new cycle has run to Complete.
C9_Witness ==
  /\ was_reset
  /\ AnalysisDone(session_state)
  /\ Val(session_state, "prediction_result") # None
  /\ screen.view \in ResultViews

C11_DecodeFailure ==
  [][ ( /\ RunStarts
        /\ selected_feature = DETECTION
        /\ models.detection_loaded
        /\ uploaded_file # None
        /\ ~uploaded_file[1].ok )
      => ( /\ screen'.view = "decode_error"
           /\ AnalysisDone(session_state') = AnalysisDone(session_state)
           /\ ResultFields(session_state') = ResultFields(session_state)
           /\ calls' = calls
           /\ pc' = "idle" ) ]_vars

\* The decode error is on the screen of a session that is Complete for an
\* earlier image.
C11_Witness ==
  /\ screen.view = "decode_error"
  /\ AnalysisDone(session_state)
  /\ Val(session_state, "prediction_result") # None
  /\ Val(session_state, "analyzed_image_hash") # None

\* ------------------------------------------------------------ recoverability
\* A session from which a displayed result can still be reached: a variant
\* function that is 0 on the goal, negative where no continuation exists in
\* the model (detection model not loaded, or no classifier invocation left
\* while one is needed), and otherwise an upper bound of the number of steps
\* of one continuation: go to the detection module, upload a decodable
\* image (the analysed one if a result is stored), click the analyse button,
\* let the loop and the classifier call finish with a score.
CompleteWithResult(ss) == AnalysisDone(ss) /\ Val(ss, "prediction_result") # None
Displayed ==
  /\ pc = "idle"
  /\ ~rerun_requested
  /\ CompleteWithResult(session_state)
  /\ screen.view \in ResultViews
After(r) == IF r < 0 THEN r ELSE r + 1
RankProgress == ProgressSteps + 2
RankSettled(ss, view, feature, used) ==
  IF CompleteWithResult(ss) /\ view \in ResultViews THEN 0
  ELSE IF ~models.detection_loaded THEN -1
  ELSE IF ~CompleteWithResult(ss) /\ used >= MaxCalls THEN -1
  ELSE IF feature # DETECTION THEN RankProgress + 6
  ELSE IF view \in AnalyseViews THEN RankProgress + 2
  ELSE RankProgress + 4
RankRun(ss, up, feature, click, used) ==
  LET r == script(ss, models, feature, up, click)
  IN  IF r.pc = "progress" THEN After(RankProgress)
      ELSE IF r.rerun
        THEN LET r2 == script(r.ss, models, feature, up, "none")
             IN  After(After(RankSettled(r2.ss, r2.view, feature, used)))
      ELSE After(RankSettled(r.ss, r.view, feature, used))
RankOf(ss, up, feature, click, rerun, pos, n, view, img, h, t, used) ==
  IF pos = "progress"
    THEN IF ~rerun THEN RankProgress - n
         ELSE IF n < ProgressSteps
           THEN After(RankRun(ss, up, feature, click, used))
         ELSE LET r == process_image_prediction(img[1], models.detection_model,
                                                [ok |-> TRUE, score |-> 100, msg |-> ""])
              IN  After(RankRun(save_results(ss, r, h, t), up, feature, click, used + 1))
  ELSE IF rerun THEN RankRun(ss, up, feature, click, used)
  ELSE RankSettled(ss, view, feature, used)
Used == SumCalls(calls, Fingerprints)
Rank ==
  RankOf(session_state, uploaded_file, selected_feature, clicked, rerun_requested,
         pc, i, screen.view, image, current_image_hash, now, Used)
RankNext ==
  RankOf(session_state', uploaded_file', selected_feature', clicked', rerun_requested',
         pc', i', screen'.view, image', current_image_hash', now',
         SumCalls(calls', Fingerprints))

\* The steps of that continuation.
StoredHash == Val(session_state, "analyzed_image_hash")
TowardInLoop ==
  \/ ProgressStep
  \/ Interrupt
  \/ Analyse /\ CompleteWithResult(session_state')
TowardRun == StartRun
TowardUser ==
  \/ UserNavigate /\ selected_feature' = DETECTION
  \/ UserClick /\ clicked' = "analyse"
  \/ /\ UserUpload
     /\ screen.view \in {"upload_prompt", "decode_error", "display_error"}
     /\ uploaded_file' # None
     /\ uploaded_file'[1].ok
     /\ LET h == Some(get_image_hash(ImageOpen(uploaded_file'[1])[1]))
        IN  IF CompleteWithResult(session_state) THEN h = StoredHash ELSE h # StoredHash
Toward ==
  IF pc = "progress" THEN TowardInLoop
  ELSE IF rerun_requested THEN TowardRun
  ELSE TowardUser
\* A requested run starts as soon as no run is executing: RunStarts is the
\* guard of StartRun.
TowardEnabled ==
  IF pc = "progress" THEN ENABLED TowardInLoop
  ELSE IF rerun_requested THEN RunStarts
  ELSE ENABLED TowardUser

ForecastDone(ss) == "forecast_done" \in DOMAIN ss /\ ss["forecast_done"]
ForecastKeys(ss) == << ForecastDone(ss), Val(ss, "forecast_result") >>
Generates == pc = "predict" /\ pc' = "idle"
Index(seq, x) == (CHOOSE k \in 1 .. Len(seq) : seq[k] = x) - 1
Consistent(req) ==
  /\ req.country \in DOMAIN city_options
  /\ \E k \in 1 .. Len(city_options[req.country]) : city_options[req.country][k] = req.city

\* C13 (forecast session invariant): forecast_result is non-None exactly
\* when forecast_done is True, and a stored result holds a prediction, a
\* city, a country, a month and a timestamp, each one a value.
C13_ForecastInvariant ==
  LET fr == Val(session_state, "forecast_result")
  IN  /\ fr # None <=> ForecastDone(session_state)
      /\ fr # None =>
           /\ DOMAIN fr[1] = {"prediction", "city", "country", "month", "timestamp"}
           /\ fr[1].prediction \in Nat
           /\ fr[1].city \in DOMAIN city_map
           /\ fr[1].country \in DOMAIN country_map
           /\ fr[1].month \in DOMAIN month_map
           /\ fr[1].timestamp \in 0 .. MaxTime

\* A forecast is stored and its results section is on the screen.
C13_Witness ==
  /\ ForecastDone(session_state)
  /\ Val(session_state, "forecast_result") # None
  /\ screen.view = "forecast_results"
  /\ report # None
  /\ report[1].confidence # None

\* C14 (forecast failure): a step of "Generer la Prevision" in which the
\* regressor or the adjustment raises leaves forecast_done and
\* forecast_result as they were and puts the error on the screen.
C14_ForecastFailure ==
  [][ ( /\ Generates
        /\ forecast_call' # None
        /\ forecast_call'[1].outcome.kind \in {"raise", "nan"} )
      => ( /\ ForecastKeys(session_state') = ForecastKeys(session_state)
           /\ screen'.notice \in {"predict failed", "cannot convert float NaN to integer"} ) ]_vars

C16_FeatureEncoding ==
  ( pc = "idle" /\ request # None /\ Consistent(request[1]) ) =>
    /\ forecast_call # None
    /\ forecast_call[1].input_data =
         Some(<< Index(countries, request[1].country),
                 Index(all_cities, request[1].city),
                 Index(months, request[1].month),
                 request[1].temperature, request[1].humidity,
                 request[1].rainfall, request[1].previous_cases >>)

\* The last city of the last country in the last month has been encoded.
C16_Witness ==
  /\ pc = "idle"
  /\ request # None
  /\ request[1].country = "Burkina Faso"
  /\ request[1].city = "Banfora"
  /\ request[1].month = "Octobre"
  /\ forecast_call # None
  /\ forecast_call[1].input_data = Some(<< 4, 19, 5, 30, 70, 120, 20 >>)

\* max(0, floor(base * populationFactor * (1.2 - h / 10))) over the rationals
ExactAdjustment(base, population, h) ==
  LET factor == CASE population = populations[1] -> 7
                  [] population = populations[2] -> 10
                  [] population = populations[3] -> 15
      num == BigToInt(base.m) * factor * (12 - h)
      den == 2^(0 - base.e) * 100
  IN  IF base.s < 0 THEN 0 ELSE num \div den

\* C17 (forecast adjustment): for every base prediction, population tier
\* and healthcare index the stored prediction is
\* max(0, floor(base * populationFactor * (1.2 - h / 10))) computed exactly;
\* base 30, the large tier and index 10 give 9.
C17_ForecastAdjustment ==
  ( pc = "idle" /\ ForecastDone(session_state) ) =>
    session_state["forecast_result"][1].prediction =
      ExactAdjustment(forecast_call[1].outcome.base, request[1].population,
                      request[1].healthcare_index)

\* C18 (risk tiering): the risk level shown for a stored prediction p is
\* "Faible" exactly when p < 20, "Modere" exactly when 20 <= p < 50 and
\* "Eleve" exactly when p >= 50.
C18_RiskTiering ==
  report # None =>
    LET p == report[1].prediction
        level == report[1].risk_level
    IN  /\ p = session_state["forecast_result"][1].prediction
        /\ level = "Faible" <=> p < 20
        /\ level = "Modere" <=> (20 <= p /\ p < 50)
        /\ level = "Eleve" <=> p >= 50

\* The lower threshold itself is shown as "Modere".
C18_Witness ==
  /\ report # None
  /\ report[1].prediction = 20
  /\ report[1].risk_level = "Modere"

\* C19 (confidence bound): the stored confidence is max(rawScore,
\* 1 - rawScore), lies in [0.5, 1.0] and is 1.0 only when rawScore is 0 or
\* 1; in every state with analysis_done True confidence_score >= 0.5.
C19_ConfidenceBound ==
  AnalysisDone(session_state) =>
    /\ Val(session_state, "prediction_result") # None
    /\ Val(session_state, "confidence_score") # None
    /\ LET raw == session_state["prediction_result"][1]
           c == session_state["confidence_score"][1]
           one == FloatOfInt(1)
           other == FSub(one, raw, 64)
       IN  /\ FCmp(c, IF FCmp(raw, other) >= 0 THEN raw ELSE other) = 0
           /\ FCmp(c, Dyadic(1, 1, -1)) >= 0
           /\ FCmp(c, one) <= 0
           /\ FCmp(c, one) = 0 => ( FCmp(raw, one) = 0 \/ raw.m = <<>> )

\* C20 (classification rule): the results screen of a session with
\* analysis_done True is the positive one exactly when the stored score is
\* >= 0.5 and the negative one exactly when it is below 0.5.
C20_ClassificationRule ==
  ( AnalysisDone(session_state) /\ screen.view \in ResultViews ) =>
    /\ Val(session_state, "prediction_result") # None
    /\ screen.view = "positive" <=> session_state["prediction_result"][1] >= 50
    /\ screen.view = "negative" <=> session_state["prediction_result"][1] < 50

\* The tie: a stored score of exactly 0.5 on the positive screen.
C20_Witness ==
  /\ screen.view = "positive"
  /\ AnalysisDone(session_state)
  /\ Val(session_state, "prediction_result") = Some(50)

\* x >= n / d and x <= n / d for a float x >= 0, over the rationals
AtLeast(x, n, d) ==
  BigCmp(BigShl(BigMulSmall(x.m, d), IF x.e > 0 THEN x.e ELSE 0),
         BigShl(BigFromInt(n), IF x.e < 0 THEN 0 - x.e ELSE 0)) >= 0
AtMost(x, n, d) ==
  BigCmp(BigShl(BigMulSmall(x.m, d), IF x.e > 0 THEN x.e ELSE 0),
         BigShl(BigFromInt(n), IF x.e < 0 THEN 0 - x.e ELSE 0)) <= 0

\* C21 (healthcare factor): for h in 1..10 the factor 1.2 - h/10 lies in
\* [0.2, 1.1] and is strictly decreasing in h; for a base prediction >= 0
\* the stored prediction does not increase when h increases and does not
\* decrease from one population tier to the next larger one.
C21_HealthcareFactor ==
  ( pc = "idle" /\ ForecastDone(session_state) ) =>
    LET h == request[1].healthcare_index
        b == forecast_call[1].outcome.base
        stored == session_state["forecast_result"][1].prediction
        table == final_predictions[numpy_promotion][b]
        k == CHOOSE j \in 1 .. Len(populations) : populations[j] = request[1].population
    IN  /\ AtLeast(healthcare_factor(h), 2, 10)
        /\ AtMost(healthcare_factor(h), 11, 10)
        /\ h < 10 => FCmp(healthcare_factor(h + 1), healthcare_factor(h)) < 0
        /\ ( b.s >= 0 /\ h < 10 ) => table[request[1].population][h + 1] <= stored
        /\ ( b.s >= 0 /\ k < Len(populations) ) => table[populations[k + 1]][h] >= stored

\* C22 (forecast replacement): a step of "Generer la Prevision" in which
\* the regressor returns a value leaves forecast_done True and a record
\* whose prediction, city, country, month and timestamp all come from the
\* request of that step, whatever record was stored before.
C22_ForecastReplacement ==
  [][ ( /\ Generates
        /\ forecast_call' # None
        /\ forecast_call'[1].outcome.kind = "value" )
      => ( /\ ForecastDone(session_state')
           /\ session_state'["forecast_result"] =
                Some([ prediction |->
                         final_predictions[numpy_promotion][forecast_call'[1].outcome.base]
                                          [request[1].population]
                                          [request[1].healthcare_index],
                       city |-> request[1].city, country |-> request[1].country,
                       month |-> request[1].month, timestamp |-> now' ]) ) ]_vars

\* The handler is past the spinner in a session that holds the record of
\* an earlier request for another city.
C22_Witness ==
  /\ pc = "predict"
  /\ ForecastDone(session_state)
  /\ session_state["forecast_result"][1].city # request[1].city

\* C23 (independent lifecycles): no step taken while the detection module
\* or the dashboard is selected (upload, run, analysis, reset) changes
\* forecast_done or forecast_result, and no step taken while the forecast
\* module is selected (run, generate, reset) changes analysis_done or the
\* four detection result fields.
C23_IndependentLifecycles ==
  [][ /\ selected_feature # FORECAST =>
           ForecastKeys(session_state') = ForecastKeys(session_state)
      /\ selected_feature = FORECAST =>
           /\ AnalysisDone(session_state') = AnalysisDone(session_state)
           /\ ResultFields(session_state') = ResultFields(session_state) ]_vars

\* With a forecast stored, an analysis was reset by "Nouvelle Analyse" and
\* another one committed.
C23_Witness ==
  /\ selected_feature = DETECTION
  /\ ForecastDone(session_state)
  /\ was_reset
  /\ AnalysisDone(session_state)
  /\ analysed # {}

\* C24 (model confidence heuristic): the confidence shown with a stored
\* forecast is min(95, 75 + 2 * healthcareIndex) for the healthcare index
\* of the request that produced the forecast, and lies in 77 .. 95.
C24_ModelConfidence ==
  ( report # None /\ report[1].confidence # None ) =>
    LET h == request[1].healthcare_index
    IN  /\ report[1].confidence[1] = (IF 75 + 2 * h < 95 THEN 75 + 2 * h ELSE 95)
        /\ report[1].confidence[1] \in 77 .. 95

DetectionFields(ss) == << AnalysisDone(ss), ResultFields(ss) >>
NewImageReset ==
  /\ RunStarts
  /\ selected_feature = DETECTION
  /\ models.detection_loaded
  /\ uploaded_file # None
  /\ ImageOpen(uploaded_file[1]) # None
  /\ is_new_image(initialize_session_state(session_state),
                  get_image_hash(ImageOpen(uploaded_file[1])[1]))
  /\ Cleared(session_state')
NouvelleAnalyse ==
  /\ RunStarts
  /\ last_handler' = "nouvelle"
  /\ Cleared(session_state')
Commits ==
  /\ SomeInvoked
  /\ AnalysisDone(session_state')
SuccessfulAnalysis ==
  /\ Commits
  /\ last_call'[1].result.error = None

\* C26 (detection frame): a step that changes analysis_done or one of the
\* four result fields is a run that resets them for a decodable upload
\* that is new to the session, the commit of a successful analysis, or
\* the "Nouvelle Analyse" handler; every other step leaves them unchanged.
C26_DetectionFrame ==
  [][ DetectionFields(session_state') # DetectionFields(session_state)
      => ( NewImageReset \/ SuccessfulAnalysis \/ NouvelleAnalyse ) ]_vars

\* C27 (forecast frame): a step that changes forecast_done or
\* forecast_result is a "Generer la Prevision" in which the regressor
\* returned a value or the "Nouvelle Prevision" handler, so widget changes
\* and module switches leave them unchanged; and the results section shown
\* for a stored forecast has its case count, risk level, city, country
\* and month.
C27_ForecastFrame ==
  /\ [][ ForecastKeys(session_state') # ForecastKeys(session_state)
         => \/ /\ Generates
               /\ forecast_call' # None
               /\ forecast_call'[1].outcome.kind = "value"
               /\ ForecastDone(session_state')
            \/ /\ RunStarts
               /\ selected_feature = FORECAST
               /\ clicked = "nouvelle_prevision"
               /\ ForecastKeys(session_state') = << FALSE, None >> ]_vars
  /\ []( ( report # None /\ ForecastDone(session_state) ) =>
           LET result == session_state["forecast_result"][1]
           IN  /\ report[1].prediction = result.prediction
               /\ report[1].risk_level = risk_level(result.prediction)
               /\ report[1].city = result.city
               /\ report[1].country = result.country
               /\ report[1].month = result.month )

\* The form was changed to another city after a forecast, and the page
\* still shows the city of the forecast.
C27_Witness ==
  /\ ForecastDone(session_state)
  /\ ~rerun_requested
  /\ pc = "idle"
  /\ screen.view = "forecast_results"
  /\ report # None
  /\ inputs.city # session_state["forecast_result"][1].city
  /\ report[1].city = session_state["forecast_result"][1].city

\* C28 (initialisation): initialize_session_state leaves every key that is
\* present as it is and gives each of the nine keys that is absent its
\* default, so that applying it again changes nothing; applied to the
\* empty session of a new user it gives analysis_done False, forecast_done
\* False and every result field None.
C28_Initialisation ==
  [][ i' = i + 1 =>
        /\ DOMAIN session_state' = DOMAIN session_state \cup DOMAIN default_values
        /\ Cardinality(DOMAIN default_values) = 9
        /\ \A k \in DOMAIN session_state : session_state'[k] = session_state[k]
        /\ \A k \in DOMAIN default_values \ DOMAIN session_state :
             session_state'[k] = default_values[k]
        /\ i > 0 => session_state' = session_state
        /\ session_state = [ k \in {} |-> None ] =>
             /\ ~session_state'["analysis_done"]
             /\ ~session_state'["forecast_done"]
             /\ \A k \in {"prediction_result", "confidence_score", "analyzed_image_hash",
                           "analysis_timestamp", "forecast_result"} :
                  session_state'[k] = None ]_vars

\* The initialisation has run twice on a session holding an analysis and
\* a forecast.
C28_Witness ==
  /\ i = MaxInitialisations
  /\ AnalysisDone(session_state)
  /\ Val(session_state, "prediction_result") # None
  /\ ForecastDone(session_state)

\* the same load with the other outcome for one of the two models
OtherForecastLoad(m) == load_ai_models(m.detection_loaded, ~m.forecast_loaded)
OtherDetectionLoad(m) == load_ai_models(~m.detection_loaded, m.forecast_loaded)

\* C29 (model-availability gate): with the detection model not loaded, a
\* run of the detection module stops at the gate: it reads no upload,
\* invokes nothing and changes no field, and the classifier is never
\* invoked; with the forecast model not loaded, a run of the forecast
\* module stops at the gate, changes no field and the regressor is never
\* invoked; and what a run of either module does is the same whether or
\* not the other module's model was loaded.
C29_AvailabilityGate ==
  [][ /\ ( RunStarts /\ selected_feature = DETECTION /\ ~models.detection_loaded ) =>
           /\ screen'.view = "model_unavailable"
           /\ pc' = "idle"
           /\ image' = None
           /\ current_image_hash' = None
           /\ DetectionFields(session_state') = DetectionFields(session_state)
           /\ ForecastKeys(session_state') = ForecastKeys(session_state)
      /\ ~models.detection_loaded => calls' = calls
      /\ ( RunStarts /\ selected_feature = FORECAST /\ ~models.forecast_loaded ) =>
           /\ screen'.view = "forecast_unavailable"
           /\ pc' = "idle"
           /\ request' = None
           /\ DetectionFields(session_state') = DetectionFields(session_state)
           /\ ForecastKeys(session_state') = ForecastKeys(session_state)
      /\ ~models.forecast_loaded => forecast_call' = None
      /\ ( RunStarts /\ selected_feature = DETECTION ) =>
           LET r == script(session_state, OtherForecastLoad(models), selected_feature,
                           uploaded_file, clicked)
           IN  session_state' = r.ss /\ screen'.view = r.view /\ pc' = r.pc
      /\ ( RunStarts /\ selected_feature = FORECAST ) =>
           LET r == forecast_module(initialize_session_state(session_state),
                                    OtherDetectionLoad(models), inputs, clicked)
           IN  session_state' = r.ss /\ screen'.view = r.view /\ pc' = r.pc ]_vars

\* The detection module has stopped at its gate in a session that holds a
\* forecast.
C29_Witness ==
  /\ ~models.detection_loaded
  /\ models.forecast_loaded
  /\ selected_feature = DETECTION
  /\ ~rerun_requested
  /\ screen.view = "model_unavailable"
  /\ ForecastDone(session_state)

\* C30 (encoding tables): every country and month of the widgets is a key
\* of country_map and month_map, every city offered for a country is a key
\* of city_map, the twenty city indices are distinct, the index of a city
\* offered for a country divided by 4 is the index of the country, and
\* the encoding of a request whose city is offered for its country does
\* not raise.
C30_EncodingTables ==
  /\ \A k \in 1 .. Len(countries) : countries[k] \in DOMAIN country_map
  /\ \A k \in 1 .. Len(months) : months[k] \in DOMAIN month_map
  /\ \A k \in 1 .. Len(countries) :
       /\ countries[k] \in DOMAIN city_options
       /\ \A j \in 1 .. Len(city_options[countries[k]]) :
            /\ city_options[countries[k]][j] \in DOMAIN city_map
            /\ city_map[city_options[countries[k]][j]] \div 4 = country_map[countries[k]]
  /\ Cardinality(DOMAIN city_map) = 20
  /\ Cardinality({ city_map[c] : c \in DOMAIN city_map }) = 20
  /\ ( pc = "idle" /\ request # None /\ Consistent(request[1]) ) =>
       /\ forecast_call # None
       /\ forecast_call[1].input_data # None
       /\ forecast_call[1].input_data[1][2] \div 4 = forecast_call[1].input_data[1][1]

\* A city of the second country in the fourth month has been encoded.
C30_Witness ==
  /\ pc = "idle"
  /\ request # None
  /\ request[1].country = "Mali"
  /\ request[1].city = "Mopti"
  /\ request[1].month = "Aout"
  /\ forecast_call # None
  /\ forecast_call[1].input_data[1][1] = 1
  /\ forecast_call[1].input_data[1][2] = 7
  /\ forecast_call[1].input_data[1][3] = 3

\* C31 (progress of an analysis): in a run that is not interrupted, the
\* handler of "Analyser avec l'IA" starts in a Ready session with the loop
\* at 0, every step of the loop advances it by one without invoking the
\* classifier, the classifier is invoked only when the loop has made its
\* 100 steps, and then once; the run that started the loop ends, and only
\* with the invocation; an invocation that returns a score leaves the
\* session Complete with that score and a rerun requested in the same step,
\* and that rerun takes place and shows the results of that score.
C31_AnalysisProgress ==
  /\ [][ ( pc = "idle" /\ pc' = "progress" ) =>
           /\ clicked = "analyse"
           /\ ~AnalysisDone(session_state)
           /\ image' # None
           /\ i' = 0
           /\ calls' = calls ]_vars
  /\ [][ ( pc = "progress" /\ pc' = "progress" ) =>
           /\ i < ProgressSteps
           /\ i' = i + 1
           /\ calls' = calls
           /\ session_state' = session_state ]_vars
  /\ [][ SomeInvoked =>
           /\ pc = "progress"
           /\ i = 100
           /\ pc' = "idle"
           /\ SumCalls(calls', Fingerprints) = SumCalls(calls, Fingerprints) + 1
           /\ LET r == last_call'[1].result
              IN  r.prediction # None =>
                    /\ AnalysisDone(session_state')
                    /\ session_state'["prediction_result"] = r.prediction
                    /\ session_state'["confidence_score"] = r.confidence
                    /\ rerun_requested'
                    /\ screen'.view = "analysis_cleared" ]_vars
  /\ [][ ( pc = "progress" /\ pc' = "idle" ) => SomeInvoked ]_vars
  /\ ( pc = "progress" /\ i = 0 ) ~> ( pc = "idle" )
  /\ [][ ( /\ screen.view = "analysis_cleared"
           /\ CompleteWithResult(session_state)
           /\ screen' # screen ) =>
           /\ session_state' = session_state
           /\ screen'.view = results_view(session_state)
           /\ screen'.view \in ResultViews
           /\ pc' = "idle"
           /\ ~rerun_requested' ]_vars
  /\ ( pc = "idle" /\ screen.view = "analysis_cleared" /\ CompleteWithResult(session_state) )
       ~> Displayed

\* The results of an analysis that returned the score 1.0 are displayed
\* after one classifier invocation.
C31_Witness ==
  /\ Displayed
  /\ Used = 1
  /\ last_call # None
  /\ last_call[1].result.prediction = Some(100)
  /\ session_state["prediction_result"] = Some(100)
  /\ screen.view = "positive"
  /\ i = 0

====
